---- MODULE Spec2Model ----
(***************************************************************************)
(* A model of cleaner.c, the interactive disk-usage explorer: the tree     *)
(* built by build_tree, the merge sort behind sorted_subdirs, the deletion *)
(* of remove_file_internal and the command loop of main.                   *)
(*                                                                         *)
(* A node of the tree is a number of 1..MaxNodes; node 1 is the path given *)
(* on the command line. A singly linked list of struct file (the next      *)
(* pointers) is a sequence of nodes. A line of input is a sequence of      *)
(* tokens: a token is a run of characters, " " a whitespace character.     *)
(***************************************************************************)
EXTENDS Integers, Sequences, FiniteSets, TLC

\* ---------------------------------------------------------------- bounds
MaxNodes == 3
MaxSize == 2
MaxPad == 1
MaxExoticNodes == 2
MaxDeny == 1
DirSize == 1
MaxChildren == 5

\* ------------------------------------------------------------- constants
NULL == 0
MAX_PRINTED == 40
MIN_PERCENTAGE == 5
FILE_TYPE_OFFSET == 12
DIRECTORY_UNLISTABLE == 16
S_IFMT == 61440
S_IFIFO == 4096
S_IFCHR == 8192
S_IFDIR == 16384
S_IFBLK == 24576
S_IFREG == 32768
S_IFLNK == 40960
S_IFSOCK == 49152
ENOENT == 2
EACCES == 13
EFAULT == 14
ENOTDIR == 20
EISDIR == 21
ENOTEMPTY == 39

Nodes == 1..MaxNodes
ROOT == 1

\* The final path segment of every node, as get_file_name finds it in the
\* name that concat_path built for it.
NameStr == <<"a", "b", "c", "d", "e", "f", "g", "h">>

get_file_name(n) == NameStr[n]

Pow2(k) == IF k = 0 THEN 1 ELSE
           IF k = 1 THEN 2 ELSE
           IF k = 2 THEN 4 ELSE
           IF k = 3 THEN 8 ELSE
           IF k = 4 THEN 16 ELSE
           IF k = 5 THEN 32 ELSE
           IF k = 6 THEN 64 ELSE
           IF k = 7 THEN 128 ELSE
           IF k = 8 THEN 256 ELSE
           IF k = 9 THEN 512 ELSE
           IF k = 10 THEN 1024 ELSE
           IF k = 11 THEN 2048 ELSE 4096

\* x >> k
ShiftRight(x, k) == x \div Pow2(k)

RECURSIVE BitAnd(_, _)
\* x & y
BitAnd(x, y) ==
    IF x = 0 \/ y = 0 THEN 0
    ELSE (IF x % 2 = 1 /\ y % 2 = 1 THEN 1 ELSE 0)
         + 2 * BitAnd(x \div 2, y \div 2)

RECURSIVE BitOr(_, _)
\* x | y
BitOr(x, y) ==
    IF x = 0 THEN y
    ELSE IF y = 0 THEN x
    ELSE (IF x % 2 = 1 \/ y % 2 = 1 THEN 1 ELSE 0)
         + 2 * BitOr(x \div 2, y \div 2)

\* ------------------------------------------------------------ filesystem
\* What lstat and opendir answer for an entry of the disk.
Kinds == {"dir", "udir", "reg", "lnk", "fifo", "chr", "blk", "sock"}

\* st_mode & S_IFMT of an entry
StMode(kind) ==
    CASE kind = "dir"  -> S_IFDIR
      [] kind = "udir" -> S_IFDIR
      [] kind = "reg"  -> S_IFREG
      [] kind = "lnk"  -> S_IFLNK
      [] kind = "fifo" -> S_IFIFO
      [] kind = "chr"  -> S_IFCHR
      [] kind = "blk"  -> S_IFBLK
      [] kind = "sock" -> S_IFSOCK

S_ISDIR(kind) == BitAnd(StMode(kind), S_IFMT) = S_IFDIR

\* opendir succeeds
Listable(kind) == kind = "dir"

\* The shapes of a disk of n entries: entry 1 is the path of the command
\* line, every other entry lies in an entry of a smaller number, and the
\* entries are numbered directory by directory.
Shapes(n) ==
    { q \in [1..n -> 0..n] :
        /\ q[1] = NULL
        /\ \A i \in 2..n : q[i] >= 1 /\ q[i] < i
        /\ \A i \in 3..n : q[i - 1] <= q[i] }

\* The kinds that fit shape q: an entry with entries in it is a listable
\* directory; the others are regular files or empty directories, but for
\* `exotic' of them, which are of the other kinds.
KindMaps(n, q, exotic) ==
    { k \in [1..n -> Kinds] :
        /\ \A i \in 2..n : k[q[i]] = "dir"
        /\ Cardinality({ i \in 1..n : k[i] \notin {"dir", "reg"} }) = exotic }

\* st_size: DirSize for a directory, 1..MaxSize for the other entries
SizeMaps(n, k) ==
    { s \in [1..n -> 1..(IF MaxSize > DirSize THEN MaxSize ELSE DirSize)] :
        \A i \in 1..n : IF S_ISDIR(k[i]) THEN s[i] = DirSize
                        ELSE s[i] <= MaxSize }

DisksOfSize(n, exotic) ==
    UNION { UNION { { [parent |-> q, kind |-> k, st_size |-> s] :
                        s \in SizeMaps(n, k) } :
                    k \in KindMaps(n, q, exotic) } :
            q \in Shapes(n) }

\* The disks the program is started on: up to MaxNodes entries that are
\* directories and regular files, or up to MaxExoticNodes entries one of
\* which is of another kind.
\* A directory of size 0 that holds two regular files of 100 and 200 bytes
\* and a directory of size 0 with one regular file of 300 bytes in it, in
\* each of the orders readdir can yield the three.
FixtureDisks ==
    UNION { { [parent |-> <<NULL, ROOT, ROOT, ROOT, c>>,
               kind |-> [i \in 1..5 |->
                           IF i \in {ROOT, c} THEN "dir" ELSE "reg"],
               st_size |-> [i \in 1..5 |->
                              IF i \in {ROOT, c} THEN 0
                              ELSE IF i = 5 THEN 300
                              ELSE IF i = a THEN 100 ELSE 200]] :
                a \in (2..4) \ {c} } :
            c \in 2..4 }

Disks ==
    UNION { DisksOfSize(n, 0) : n \in 1..MaxNodes }
    \cup UNION { DisksOfSize(n, 1) : n \in 1..MaxExoticNodes }
    \cup FixtureDisks

\* The entries of directory d of a disk, in the order readdir yields them.
RECURSIVE Entries(_, _, _)
Entries(dk, d, i) ==
    IF i > Len(dk.parent) THEN << >>
    ELSE (IF dk.parent[i] = d THEN <<i>> ELSE << >>)
         \o Entries(dk, d, i + 1)

VARIABLES
    pc,         \* "start", "loop" (the head of main's loop), "readline"
                \* (main waits in readline), "exited", "crashed"
    exit_code,  \* the status the process ended with
    disk,       \* the entries lstat finds
    storage,    \* the entries still on the disk
    file,       \* struct file of every node built: parent, size, type
    dir,        \* the struct directory part: subdirs, self_size, subdirs_sorted
    freed,      \* the nodes passed to free
    tree,       \* main's tree
    cur,        \* main's cur
    last        \* what the last step did

vars == <<pc, exit_code, disk, storage, file, dir, freed, tree, cur, last>>


\* ---------------------------------------------------------------- memory
\* The memory and the process as one call sees them: the structs, the freed
\* nodes, the disk entries, whether the process has ended inside the call
\* (halt is "no", "exit" with status code, or "crash"), the value returned,
\* the storage deletes attempted and refused so far, and the nodes read
\* after they were freed (stale).
Mem(f, d, fr, st) ==
    [file |-> f, dir |-> d, freed |-> fr, storage |-> st,
     halt |-> "no", code |-> 0, ret |-> NULL,
     attempts |-> << >>, refused |-> {}, stale |-> {}]

\* err(eval, ...) of <err.h>: prints the message and exits with status eval.
err(m, eval) == [m EXCEPT !.halt = "exit", !.code = eval]

\* A read through a null pointer, or a walk along a wild one.
Crash(m) == [m EXCEPT !.halt = "crash"]

IsDirType(type) == type = ShiftRight(S_IFDIR, FILE_TYPE_OFFSET)

RECURSIVE SumSizes(_, _)
SumSizes(f, list) ==
    IF list = << >> THEN 0 ELSE f[Head(list)].size + SumSizes(f, Tail(list))

\* ------------------------------------------------------------ build_tree
RECURSIVE build_tree(_, _, _, _, _)
RECURSIVE build_entries(_, _, _, _, _, _)

\* path: an entry, or NULL (what realpath gave main for a path it could not
\* resolve); statFail: the entries lstat fails on, and the errno it fails
\* with; junk: what the uninitialised subdirs_sorted of an unlistable
\* directory holds. refused collects the path lstat failed on.
build_tree(m, dk, path, statFail, junk) ==
    IF path = NULL
    THEN err([m EXCEPT !.refused = @ \cup {path}], EFAULT)
    ELSE IF path \in statFail.nodes
    THEN err([m EXCEPT !.refused = @ \cup {path}], statFail.errno)
    ELSE
      LET kind == dk.kind[path]
          f0 == [parent |-> NULL,
                 size |-> dk.st_size[path],
                 type |-> ShiftRight(BitAnd(StMode(kind), S_IFMT),
                                     FILE_TYPE_OFFSET)]
      IN
      IF S_ISDIR(kind)
      THEN
        IF Listable(kind)
        THEN
          LET m1 == [m EXCEPT
                       !.file = (path :> f0) @@ m.file,
                       !.dir = (path :> [subdirs |-> << >>,
                                         self_size |-> f0.size,
                                         subdirs_sorted |-> junk]) @@ m.dir]
              m2 == build_entries(m1, dk, path, Entries(dk, path, 1),
                                  statFail, junk)
          IN  IF m2.halt # "no" THEN m2
              ELSE [m2 EXCEPT !.dir[path].subdirs_sorted = FALSE,
                              !.ret = path]
        ELSE
          [m EXCEPT
             !.file = (path :> [f0 EXCEPT
                          !.type = BitOr(f0.type, DIRECTORY_UNLISTABLE)])
                      @@ m.file,
             !.dir = (path :> [subdirs |-> << >>,
                               self_size |-> f0.size,
                               subdirs_sorted |-> junk]) @@ m.dir,
             !.ret = path]
      ELSE [m EXCEPT !.file = (path :> f0) @@ m.file, !.ret = path]

\* the readdir loop of build_tree
build_entries(m, dk, d, entries, statFail, junk) ==
    IF entries = << >> THEN m
    ELSE
      LET m1 == build_tree(m, dk, Head(entries), statFail, junk)
          new_file == m1.ret
      IN
      IF m1.halt # "no" THEN m1
      ELSE IF new_file # NULL
      THEN build_entries(
             [m1 EXCEPT !.file[new_file].parent = d,
                        !.dir[d].subdirs = <<new_file>> \o @,
                        !.file[d].size = @ + m1.file[new_file].size],
             dk, d, Tail(entries), statFail, junk)
      ELSE build_entries(m1, dk, d, Tail(entries), statFail, junk)

\* ------------------------------------------------------------------ sort
RECURSIVE reverse_onto(_, _)
reverse_onto(p, x) ==
    IF x = << >> THEN p ELSE reverse_onto(<<Head(x)>> \o p, Tail(x))

reverse(f) == IF f = << >> THEN f ELSE reverse_onto(<<Head(f)>>, Tail(f))

RECURSIVE merge_loop(_, _, _, _)
\* the while loop of merge: result is the list built so far, newest first
merge_loop(f, a, b, result) ==
    IF a = << >> /\ b = << >> THEN result
    ELSE IF b = << >> \/ (a # << >> /\ f[Head(a)].size > f[Head(b)].size)
    THEN merge_loop(f, Tail(a), b, <<Head(a)>> \o result)
    ELSE merge_loop(f, a, Tail(b), <<Head(b)>> \o result)

\* merge returning the list as its loop built it
merge_unreversed(f, a, b) == merge_loop(f, a, b, << >>)

merge(f, a, b) == reverse(merge_loop(f, a, b, << >>))

RECURSIVE do_merge_sort(_, _, _)
do_merge_sort(f, files, n) ==
    IF n = 0 \/ n = 1 THEN files
    ELSE LET m == n \div 2
         IN  merge(f, do_merge_sort(f, SubSeq(files, 1, m), m),
                      do_merge_sort(f, SubSeq(files, m + 1, n), n - m))

\* sorted_subdirs running the merge sort at every call
sorted_subdirs_always(m, d) ==
    [m EXCEPT !.dir[d].subdirs = do_merge_sort(m.file, @, Len(@)),
              !.dir[d].subdirs_sorted = TRUE]

sorted_subdirs(m, d) ==
    IF ~ m.dir[d].subdirs_sorted
    THEN [m EXCEPT !.dir[d].subdirs =
                       do_merge_sort(m.file, @, Len(@)),
                   !.dir[d].subdirs_sorted = TRUE]
    ELSE m

\* print_node changes the memory only by the sort it asks for
print_node(m, f) ==
    IF IsDirType(m.file[f].type) THEN sorted_subdirs(m, f) ELSE m

RECURSIVE print_loop(_, _, _, _, _)
\* The for loop of print_node over the sorted list: the nodes it prints a
\* row for. explained is kept as the sum of the sizes printed, the sum of
\* the percentages being 100 * explained / f->size.
print_loop(fl, f, list, printed, explained) ==
    IF list = << >> THEN << >>
    ELSE IF \/ printed + 1 > MAX_PRINTED
            \/ 100 * explained > (100 - MIN_PERCENTAGE) * fl[f].size
    THEN << >>
    ELSE <<Head(list)>>
         \o print_loop(fl, f, Tail(list), printed + 1,
                       explained + fl[Head(list)].size)

\* the rows print_node prints for f
print_rows(m, f) ==
    IF IsDirType(m.file[f].type)
    THEN print_loop(m.file, f, sorted_subdirs(m, f).dir[f].subdirs, 0, 0)
    ELSE << >>


\* ----------------------------------------------------------------- input
isspace(c) == c = " "

\* runs of 0..MaxPad whitespace characters
Pads == UNION { [1..k -> {" "}] : k \in 0..MaxPad }

\* The words a line is made of when the cursor is c: "..", the names of the
\* entries of c, and the name of c itself, which like every other name is
\* the name of no entry of c.
Words(f, d, c) ==
    {<<"..">>, <<get_file_name(c)>>}
    \cup (IF c \in DOMAIN d
          THEN { <<get_file_name(d[c].subdirs[i])>> :
                   i \in 1..Len(d[c].subdirs) }
          ELSE {})

\* the lines without a command: blank, or a word with whitespace around it
NameLines(f, d, c) ==
    Pads \cup { p \o w \o q : p \in Pads, w \in Words(f, d, c), q \in Pads }

\* the lines that begin with cmd: alone, with a word stuck to it, or
\* followed by whitespace and perhaps a word
CommandLines(f, d, c, cmd) ==
    {<<cmd>>}
    \cup { <<cmd>> \o w : w \in Words(f, d, c) }
    \cup { <<cmd, " ">> \o p : p \in Pads }
    \cup { <<cmd, " ">> \o p \o w \o q :
             p \in Pads, w \in Words(f, d, c), q \in Pads }

\* *line == '/'
StartsWithSlash(line) == line # << >> /\ line[1] \in {"/rm", "/help"}

RECURSIVE SkipSpace(_)
SkipSpace(line) ==
    IF line # << >> /\ isspace(Head(line)) THEN SkipSpace(Tail(line))
    ELSE line

RECURSIVE DropTrailingSpace(_)
DropTrailingSpace(line) ==
    IF line # << >> /\ isspace(line[Len(line)])
    THEN DropTrailingSpace(SubSeq(line, 1, Len(line) - 1))
    ELSE line

extract_name(line) ==
    LET start == SkipSpace(line)
    IN  IF start = << >> THEN start ELSE DropTrailingSpace(start)

\* a line is [null |-> the pointer is NULL, text |-> the characters]
is_empty_line(s) ==
    s.null \/ \A i \in 1..Len(s.text) : isspace(s.text[i])

RECURSIVE FirstSpace(_, _)
\* the position of the first delimiter at or after i, 0 when there is none
FirstSpace(line, i) ==
    IF i > Len(line) THEN 0
    ELSE IF isspace(line[i]) THEN i
    ELSE FirstSpace(line, i + 1)

\* strsep(&line, " \t\n"): the token cut off, and what line points to then
strsep(line) ==
    LET i == FirstSpace(line, 1)
    IN  IF i = 0
        THEN [cmd |-> line, line |-> [null |-> TRUE, text |-> << >>]]
        ELSE [cmd |-> SubSeq(line, 1, i - 1),
              line |-> [null |-> FALSE,
                        text |-> SubSeq(line, i + 1, Len(line))]]

\* ----------------------------------------------------------- next_entity
RECURSIVE FindByName(_, _)
FindByName(list, s) ==
    IF list = << >> THEN NULL
    ELSE IF <<get_file_name(Head(list))>> = s THEN Head(list)
    ELSE FindByName(Tail(list), s)

\* next_entity answering ".." at the root with the root
next_entity_stay_at_root(m, f, s) ==
    IF s = <<"..">>
    THEN (IF m.file[f].parent = NULL THEN f ELSE m.file[f].parent)
    ELSE IF IsDirType(m.file[f].type) THEN FindByName(m.dir[f].subdirs, s)
    ELSE NULL

\* &f->parent->file is f->parent, file being the first member of
\* struct directory; it is NULL at the root
next_entity(m, f, s) ==
    IF s = <<"..">> THEN m.file[f].parent
    ELSE IF IsDirType(m.file[f].type) THEN FindByName(m.dir[f].subdirs, s)
    ELSE NULL

\* ---------------------------------------------------------------- remove
\* update_size without the reset of the size to self_size
update_size_accumulate(m, d) ==
    [m EXCEPT !.dir[d].subdirs_sorted = FALSE,
              !.file[d].size = @ + SumSizes(m.file, m.dir[d].subdirs)]

\* update_size leaving subdirs_sorted as it is
update_size_keep_sorted(m, d) ==
    [m EXCEPT !.file[d].size = m.dir[d].self_size
                               + SumSizes(m.file, m.dir[d].subdirs)]

update_size(m, d) ==
    [m EXCEPT !.dir[d].subdirs_sorted = FALSE,
              !.file[d].size = m.dir[d].self_size
                               + SumSizes(m.file, m.dir[d].subdirs)]

\* unlink(2): env.deny are the entries the system refuses to delete
unlink(m, dk, f, env) ==
    IF f \in env.deny THEN [ok |-> FALSE, errno |-> env.errno]
    ELSE IF f \notin m.storage THEN [ok |-> FALSE, errno |-> ENOENT]
    ELSE IF S_ISDIR(dk.kind[f]) THEN [ok |-> FALSE, errno |-> EISDIR]
    ELSE [ok |-> TRUE, errno |-> 0]

\* rmdir(2)
rmdir(m, dk, f, env) ==
    IF f \in env.deny THEN [ok |-> FALSE, errno |-> env.errno]
    ELSE IF f \notin m.storage THEN [ok |-> FALSE, errno |-> ENOENT]
    ELSE IF ~ S_ISDIR(dk.kind[f]) THEN [ok |-> FALSE, errno |-> ENOTDIR]
    ELSE IF \E c \in m.storage : dk.parent[c] = f
    THEN [ok |-> FALSE, errno |-> ENOTEMPTY]
    ELSE [ok |-> TRUE, errno |-> 0]

\* the memory after a storage call on f that answered r
Called(m, call, f, r) ==
    [m EXCEPT !.attempts = Append(@, [call |-> call, node |-> f,
                                      ok |-> r.ok]),
              !.storage = IF r.ok THEN @ \ {f} ELSE @]

Refuse(m, f, errno) == err([m EXCEPT !.refused = @ \cup {f}], errno)

\* RemoveAll leaving the list as it is
RemoveAll_keep(list, f) == list

RemoveAll(list, f) == SelectSeq(list, LAMBDA x : x # f)

\* the closing loop stopping after the parent
update_ancestors_parent_only(m, d) ==
    IF d = NULL THEN m ELSE update_size(m, d)

\* the closing loop of remove_file_internal left out
update_ancestors_none(m, d) == m

RECURSIVE update_ancestors(_, _)
\* the closing while loop of remove_file_internal
update_ancestors(m, d) ==
    IF d = NULL THEN m
    ELSE update_ancestors(update_size(m, d), m.file[d].parent)

RECURSIVE remove_file_internal(_, _, _, _, _)
RECURSIVE remove_subdirs(_, _, _, _, _, _)
RECURSIVE remove_subdirs_step(_, _, _, _, _, _, _)

\* the directory f once the loop over its entries has left memory m1
remove_directory(m1, dk, f, env) ==
    IF m1.halt # "no" THEN m1
    ELSE IF ~ m1.ret THEN update_size(m1, f)
    ELSE LET r == rmdir(m1, dk, f, env)
             m2 == Called(m1, "rmdir", f, r)
         IN  IF r.ok THEN update_size(m2, f)
             ELSE Refuse(m2, f, r.errno)

\* the else branch taking a node whose unlink and rmdir both failed for
\* removed
remove_other_ignore_failure(m, dk, f, env) ==
    LET r1 == unlink(m, dk, f, env)
        m1 == Called(m, "unlink", f, r1)
    IN
    IF r1.ok THEN [m1 EXCEPT !.ret = TRUE]
    ELSE [Called(m1, "rmdir", f, rmdir(m1, dk, f, env)) EXCEPT !.ret = TRUE]

\* the else branch: unlink, and rmdir when unlink fails
remove_other(m, dk, f, env) ==
    LET r1 == unlink(m, dk, f, env)
        m1 == Called(m, "unlink", f, r1)
    IN
    IF r1.ok THEN [m1 EXCEPT !.ret = TRUE]
    ELSE LET r2 == rmdir(m1, dk, f, env)
             m2 == Called(m1, "rmdir", f, r2)
         IN  IF r2.ok THEN [m2 EXCEPT !.ret = TRUE]
             ELSE Refuse(m2, f, r2.errno)

\* the part of remove_file_internal under `if (remove_parent)', and its
\* return: body is the memory the deletes have left
remove_file_unlink(body, parent, f, remove_parent) ==
    IF body.halt # "no" THEN body
    ELSE IF ~ remove_parent THEN body
    ELSE IF ~ body.ret
    THEN [update_ancestors(body, parent) EXCEPT !.ret = FALSE]
    ELSE [update_ancestors(
            [body EXCEPT
               !.dir = IF parent # NULL
                       THEN [@ EXCEPT ![parent].subdirs = RemoveAll(@, f)]
                       ELSE @,
               !.freed = @ \cup {f}],
            parent) EXCEPT !.ret = TRUE]

\* env.ub: what the read of d->subdirs past the end of a struct file finds,
\* "crash" (a wild pointer) or "null"
remove_file_internal(m, dk, f, remove_parent, env) ==
    remove_file_unlink(
      IF BitAnd(m.file[f].type, ShiftRight(S_IFDIR, FILE_TYPE_OFFSET)) # 0
      THEN
        IF f \notin DOMAIN m.dir
        THEN
          IF env.ub = "crash" THEN Crash(m)
          ELSE LET r == rmdir(m, dk, f, env)
                   m1 == Called(m, "rmdir", f, r)
               IN  IF r.ok THEN Crash(m1)
                   ELSE Refuse(m1, f, r.errno)
        ELSE remove_directory(remove_subdirs(m, dk, f, 1, TRUE, env),
                              dk, f, env)
      ELSE remove_other(m, dk, f, env),
      m.file[f].parent, f, remove_parent)

\* the body of the while loop over *subdirs after the recursive call on
\* entry c has left memory m1
remove_subdirs_step(m1, dk, d, i, c, result, env) ==
    IF m1.halt # "no" THEN m1
    ELSE IF m1.ret
    THEN remove_subdirs(
           [m1 EXCEPT !.freed = @ \cup {c},
                      !.dir[d].subdirs =
                          SubSeq(@, 1, i - 1) \o SubSeq(@, i + 1, Len(@))],
           dk, d, i, result, env)
    ELSE remove_subdirs(m1, dk, d, i + 1, FALSE, env)

\* the while loop over *subdirs: i is the position subdirs points at
remove_subdirs(m, dk, d, i, result, env) ==
    IF i > Len(m.dir[d].subdirs) THEN [m EXCEPT !.ret = result]
    ELSE remove_subdirs_step(
           remove_file_internal(m, dk, m.dir[d].subdirs[i], FALSE, env),
           dk, d, i, m.dir[d].subdirs[i], result, env)

\* remove_file passing false for remove_parent
remove_file_keep_parent(m, dk, f, env) ==
    remove_file_internal(m, dk, f, FALSE, env)

remove_file(m, dk, f, env) == remove_file_internal(m, dk, f, TRUE, env)


\* -------------------------------------------------------------- commands
\* What a step tells about itself: the operation, the node it was aimed
\* at and that node's parent, the cursor before, whether the argument was
\* blank or "..", whether remove_file returned true, the storage calls, the
\* entries whose delete was refused, the nodes read after they were freed,
\* and the message printed.
Report(op, precur) ==
    [op |-> op, target |-> NULL, tparent |-> NULL, precur |-> precur,
     blank |-> FALSE, dotdot |-> FALSE, returned |-> FALSE,
     attempts |-> << >>, refused |-> {}, stale |-> {}, msg |-> ""]

\* process_rm handing back the cursor it was given
rm_result_keep_cursor(c, parent) == c

\* process_rm handing back the cursor it was given unless the target had
\* no parent
rm_result_unless_root(c, parent) == IF parent = NULL THEN parent ELSE c

\* the cursor process_rm hands back
rm_result(c, parent) == parent

\* the node process_rm is to remove
rm_target(m, c, line) ==
    IF is_empty_line(line) THEN c ELSE next_entity(m, c, line.text)

\* what process_rm hands back once remove_file has left memory m1
rm_done(m1, c, parent, rep) ==
    [m |-> m1,
     cur |-> rm_result(c, parent),
     rep |-> [rep EXCEPT
                !.tparent = parent,
                !.returned = (m1.halt = "no" /\ m1.ret),
                !.attempts = m1.attempts,
                !.refused = m1.refused,
                !.msg = IF m1.halt = "exit" THEN "cannot remove"
                        ELSE IF m1.halt = "no" /\ parent = NULL
                        THEN "removed root directory" ELSE ""]]

\* process_rm on the node to_remove that its argument names
rm_node(m, dk, c, line, to_remove, env) ==
    IF to_remove = NULL
    THEN \* to_remove->parent reads through the null pointer
         [m |-> Crash(m), cur |-> c,
          rep |-> [Report("rm", c) EXCEPT
                     !.blank = is_empty_line(line),
                     !.dotdot = (~ line.null /\ line.text = <<"..">>)]]
    ELSE rm_done(remove_file(m, dk, to_remove, env), c,
                 m.file[to_remove].parent,
                 [Report("rm", c) EXCEPT
                    !.target = to_remove,
                    !.blank = is_empty_line(line),
                    !.dotdot = (~ line.null /\ line.text = <<"..">>)])

process_rm(m, dk, c, line, env) ==
    rm_node(m, dk, c, line, rm_target(m, c, line), env)

process_help(m, c, line) ==
    [m |-> m, cur |-> c,
     rep |-> [Report("help", c) EXCEPT
                !.msg = IF ~ is_empty_line(line) THEN "wrong command"
                        ELSE "usage"]]

process_command(m, dk, c, line, env) ==
    LET sp == strsep(line)
    IN  IF sp.cmd = <<"/rm">> THEN process_rm(m, dk, c, sp.line, env)
        ELSE IF sp.cmd = <<"/help">> THEN process_help(m, c, sp.line)
        ELSE [m |-> m, cur |-> c,
              rep |-> [Report("unknown", c) EXCEPT
                         !.msg = "command not recognized"]]

\* the else branch of main's loop
enter_name(m, c, line) ==
    LET name == extract_name(line)
        nxt == next_entity(m, c, name)
    IN  [m |-> m,
         cur |-> IF nxt = NULL THEN c ELSE nxt,
         rep |-> [Report("nav", c) EXCEPT
                    !.target = nxt,
                    !.dotdot = (name = <<"..">>),
                    !.blank = (name = << >>),
                    !.msg = IF nxt = NULL THEN "no such file" ELSE ""]]

\* free(file->name); free(file)
deallocate_free(m2, f) ==
    IF m2.halt # "no" THEN m2 ELSE [m2 EXCEPT !.freed = @ \cup {f}]

RECURSIVE deallocate_files(_, _, _)
RECURSIVE deallocate_rest(_, _, _)
\* file and its next chain are a list; a freed node met on the way is read
\* after free: ub tells whether that crashes or finds the old contents
deallocate_files(m, list, ub) ==
    IF list = << >> \/ m.halt # "no" THEN m
    ELSE IF Head(list) \in m.freed /\ Head(list) \notin m.stale
    THEN \* file->type is read from freed memory
         IF ub = "crash"
         THEN Crash([m EXCEPT !.stale = @ \cup {Head(list)}])
         ELSE deallocate_files([m EXCEPT !.stale = @ \cup {Head(list)}],
                               list, ub)
    ELSE deallocate_rest(
           IF IsDirType(m.file[Head(list)].type)
           THEN deallocate_files(m, m.dir[Head(list)].subdirs, ub)
           ELSE m,
           list, ub)

\* the call on file->next, and then the calls of free
deallocate_rest(m1, list, ub) ==
    deallocate_free(deallocate_files(m1, Tail(list), ub), Head(list))

\* ------------------------------------------------------------------ main
Errnos == {ENOENT, EACCES}

UBOutcomes == {"crash", "null"}

NoEnv == [deny |-> {}, errno |-> ENOENT, ub |-> "null"]

RECURSIVE Subtree(_, _, _)
\* f and the nodes below it
Subtree(fl, d, f) ==
    {f} \cup (IF f \in DOMAIN d
              THEN UNION { Subtree(fl, d, d[f].subdirs[i]) :
                             i \in 1..Len(d[f].subdirs) }
              ELSE {})

\* What the system and the build do to the removal of node t: the entries
\* (at most MaxDeny, among those the removal reaches) whose delete the
\* system refuses, the errno it refuses with, and what a read outside an
\* object finds where the removal makes one.
Envs(fl, d, t) ==
    IF t = NULL THEN {NoEnv}
    ELSE
      LET reach == Subtree(fl, d, t)
          wild == fl[t].parent = NULL
                  \/ \E n \in reach :
                       /\ n \notin DOMAIN d
                       /\ BitAnd(fl[n].type,
                                 ShiftRight(S_IFDIR, FILE_TYPE_OFFSET)) # 0
      IN  { [deny |-> deny, errno |-> e, ub |-> ub] :
              deny \in { x \in SUBSET reach : Cardinality(x) <= MaxDeny },
              e \in Errnos, ub \in UBOutcomes } \
          { env \in [deny : SUBSET reach, errno : Errnos, ub : UBOutcomes] :
              \/ env.deny = {} /\ env.errno # ENOENT
              \/ ~ wild /\ env.ub # "null" }

Init ==
    /\ pc = "start"
    /\ exit_code = 0
    /\ disk \in Disks
    /\ storage = DOMAIN disk.parent
    /\ file = << >>
    /\ dir = << >>
    /\ freed = {}
    /\ tree = NULL
    /\ cur = NULL
    /\ last = Report("none", NULL)

\* main goes on to `how' with memory m: the head of its loop, readline, or
\* the end of the process by return from main, by err or by a signal
Ends(m, how, code, rep) ==
    /\ pc' = how
    /\ exit_code' = code
    /\ storage' = m.storage
    /\ file' = m.file
    /\ dir' = m.dir
    /\ freed' = m.freed
    /\ last' = rep
    /\ UNCHANGED disk

\* main up to its first readline
Start ==
    /\ pc = "start"
    /\ LET m0 == Mem(file, dir, freed, storage)
           rep == Report("start", NULL)
       IN
       \/ \* argc > 2
          /\ Ends(m0, "exited", 1, [rep EXCEPT !.msg = "incorrect arguments"])
          /\ UNCHANGED <<tree, cur>>
       \/ \* open(".") fails
          /\ \E e \in Errnos :
               Ends(m0, "exited", e,
                    [rep EXCEPT !.msg = "can't open current directory"])
          /\ UNCHANGED <<tree, cur>>
       \/ \E base_path \in {ROOT, NULL},
             nodes \in { x \in SUBSET DOMAIN disk.parent :
                           Cardinality(x) <= MaxDeny },
             e \in Errnos, junk \in BOOLEAN :
            LET m1 == build_tree(m0, disk, base_path,
                                 [nodes |-> nodes, errno |-> e], junk)
            IN
            IF m1.halt # "no"
            THEN /\ Ends(m1, "exited", m1.code,
                         [rep EXCEPT !.msg = "stat failed",
                                     !.refused = m1.refused])
                 /\ UNCHANGED <<tree, cur>>
            ELSE IF m1.ret = NULL
            THEN /\ Ends(m1, "exited", 1,
                         [rep EXCEPT !.msg = "failed to build a tree"])
                 /\ UNCHANGED <<tree, cur>>
            ELSE /\ tree' = m1.ret
                 /\ cur' = m1.ret
                 /\ Ends(m1, "loop", 0, rep)

\* the head of main's loop: chdir and print_node, up to the call of readline
Display ==
    /\ pc = "loop"
    /\ UNCHANGED <<tree, cur>>
    /\ Ends(print_node(Mem(file, dir, freed, storage), cur), "readline",
            exit_code, Report("display", cur))

\* exit_tree and the return from main with status code: m1 is what
\* deallocate_files left
Shutdown(m1, code, rep) ==
    IF m1.halt = "crash"
    THEN Ends(m1, "crashed", exit_code, [rep EXCEPT !.stale = m1.stale])
    ELSE Ends(m1, "exited", code, [rep EXCEPT !.stale = m1.stale])

\* the end of a turn of main's loop: r is what the branch taken left
NextTurn(r, env) ==
    IF r.m.halt = "exit"
    THEN /\ Ends(r.m, "exited", r.m.code, r.rep)
         /\ UNCHANGED <<tree, cur>>
    ELSE IF r.m.halt = "crash"
    THEN /\ Ends(r.m, "crashed", exit_code, r.rep)
         /\ UNCHANGED <<tree, cur>>
    ELSE IF r.cur = NULL
    THEN \* exit_code = 0; goto exit_tree
         /\ cur' = NULL
         /\ UNCHANGED tree
         /\ Shutdown(deallocate_files(r.m, <<tree>>, env.ub), 0, r.rep)
    ELSE /\ cur' = r.cur
         /\ UNCHANGED tree
         /\ Ends(r.m, "loop", exit_code, r.rep)

\* the rest of main's loop on a line that readline returned
Turn(line, env) ==
    NextTurn(IF StartsWithSlash(line)
             THEN process_command(Mem(file, dir, freed, storage), disk, cur,
                                  line, env)
             ELSE enter_name(Mem(file, dir, freed, storage), cur, line),
             env)

\* readline returns NULL
EndOfInput ==
    /\ pc = "readline"
    /\ UNCHANGED <<tree, cur>>
    /\ Shutdown(deallocate_files(Mem(file, dir, freed, storage), <<tree>>,
                                 "crash"),
                exit_code, Report("eof", cur))

\* a line that does not begin with '/'
Navigate ==
    /\ pc = "readline"
    /\ \E line \in NameLines(file, dir, cur) \cup {<<" ", "/rm">>} :
         /\ ~ StartsWithSlash(line)
         /\ Turn(line, NoEnv)

\* a line whose first token is /rm
CommandRm ==
    /\ pc = "readline"
    /\ \E line \in CommandLines(file, dir, cur, "/rm") :
         /\ StartsWithSlash(line)
         /\ strsep(line).cmd = <<"/rm">>
         /\ \E env \in Envs(file, dir,
                            rm_target(Mem(file, dir, freed, storage), cur,
                                      strsep(line).line)) :
              Turn(line, env)

\* any other line that begins with '/'
CommandOther ==
    /\ pc = "readline"
    /\ \E line \in CommandLines(file, dir, cur, "/rm")
                   \cup CommandLines(file, dir, cur, "/help") :
         /\ StartsWithSlash(line)
         /\ strsep(line).cmd # <<"/rm">>
         /\ Turn(line, NoEnv)

Next ==
    Start \/ Display \/ EndOfInput \/ Navigate \/ CommandRm \/ CommandOther

Spec == Init /\ [][Next]_vars

\* ------------------------------------------------------- the sort alone
\* A directory of up to MaxChildren regular files of any sizes: readdir
\* yields them in the order of their numbers.
FlatDisks ==
    UNION { { [parent |-> [i \in 1..(k + 1) |-> IF i = 1 THEN NULL ELSE ROOT],
               kind |-> [i \in 1..(k + 1) |-> IF i = 1 THEN "dir" ELSE "reg"],
               st_size |-> [i \in 1..(k + 1) |->
                              IF i = 1 THEN DirSize ELSE s[i - 1]]] :
                s \in [1..k -> 1..MaxSize] } :
            k \in 0..MaxChildren }

\* the tree build_tree makes of such a directory, before any display
SortInit ==
    /\ pc = "sort"
    /\ exit_code = 0
    /\ disk \in FlatDisks
    /\ storage = DOMAIN disk.parent
    /\ file = build_tree(Mem(<< >>, << >>, {}, DOMAIN disk.parent), disk, ROOT,
                         [nodes |-> {}, errno |-> ENOENT], FALSE).file
    /\ dir = build_tree(Mem(<< >>, << >>, {}, DOMAIN disk.parent), disk, ROOT,
                        [nodes |-> {}, errno |-> ENOENT], FALSE).dir
    /\ freed = {}
    /\ tree = ROOT
    /\ cur = ROOT
    /\ last = Report("start", NULL)

\* the first call of sorted_subdirs on the directory
SortCall ==
    /\ pc = "sort"
    /\ UNCHANGED <<tree, cur>>
    /\ Ends(sorted_subdirs(Mem(file, dir, freed, storage), cur), "sorted",
            exit_code, Report("display", cur))

\* a second call, nothing having been removed in between
SortAgain ==
    /\ pc = "sorted"
    /\ UNCHANGED <<tree, cur>>
    /\ Ends(sorted_subdirs(Mem(file, dir, freed, storage), cur), "again",
            exit_code, Report("display", cur))

SortNext == SortCall \/ SortAgain

SortSpec == SortInit /\ [][SortNext]_vars


\* ================================================================ claims
Range(list) == { list[i] : i \in 1..Len(list) }

\* the process is running
Running == pc \in {"loop", "readline"}

\* the nodes of the tree main holds
InTree ==
    IF tree = NULL \/ tree \in freed THEN {} ELSE Subtree(file, dir, tree)

RECURSIVE Ancestors(_, _)
Ancestors(fl, n) ==
    IF fl[n].parent = NULL THEN {}
    ELSE {fl[n].parent} \cup Ancestors(fl, fl[n].parent)

\* C1: whenever the process is running, after the build and after every
\* command, every directory of the tree has size = self_size + the sizes of
\* the nodes in its subdirs list.
C1_SizeAggregation ==
    Running =>
      \A d \in InTree \cap DOMAIN dir :
        file[d].size = dir[d].self_size + SumSizes(file, dir[d].subdirs)

\* a removal has returned and a directory that still has children is left
C1_Witness ==
    /\ pc = "loop"
    /\ last.op = "rm"
    /\ last.returned
    /\ \E d \in InTree \cap DOMAIN dir : dir[d].subdirs # << >>

\* C2: when /rm is aimed at a directory and the delete of something below
\* it is refused, remove returns; the directory is still in its parent's
\* list, no rmdir of the directory itself was attempted, its list holds
\* exactly the children whose removal failed, and its size is self_size
\* plus the sizes of those children.
C2_PartialFailure ==
    (/\ last.op = "rm"
     /\ last.target # NULL
     /\ last.target \in DOMAIN dir
     /\ last.refused \ {last.target} # {})
    =>
    /\ pc = "loop"
    /\ last.tparent # NULL => last.target \in Range(dir[last.tparent].subdirs)
    /\ \A i \in 1..Len(last.attempts) : last.attempts[i].node # last.target
    /\ \A c \in Range(dir[last.target].subdirs) :
         Subtree(file, dir, c) \cap last.refused # {}
    /\ file[last.target].size =
         dir[last.target].self_size
         + SumSizes(file, dir[last.target].subdirs)

\* C3: when /rm is aimed at a directory and the storage delete of every
\* node below it and of the directory itself succeeds, none of them is on
\* the disk afterwards, the directory is not in its former parent's list,
\* and remove_file returned true.
C3_DirectoryRemoved ==
    [][ (/\ pc = "readline"
         /\ last'.op = "rm"
         /\ last'.target # NULL
         /\ last'.target \in DOMAIN dir
         /\ \A n \in Subtree(file, dir, last'.target) :
              \E i \in 1..Len(last'.attempts) :
                last'.attempts[i].node = n /\ last'.attempts[i].ok)
        =>
        /\ Subtree(file, dir, last'.target) \cap storage' = {}
        /\ last'.tparent # NULL
             => last'.target \notin Range(dir'[last'.tparent].subdirs)
        /\ last'.returned ]_vars

\* a directory with something in it and a parent has been removed
C3_Witness ==
    /\ pc = "loop"
    /\ last.op = "rm"
    /\ last.returned
    /\ last.target \in DOMAIN dir
    /\ last.tparent # NULL
    /\ Len(last.attempts) >= 2
    /\ \A i \in 1..Len(last.attempts) : last.attempts[i].ok

\* C4: a successful /rm of a node that is not a directory, of size s,
\* lowers the size of each of its ancestors by exactly s and leaves the
\* size of every other node of the tree as it was.
C4_LeafRemovalFrame ==
    [][ (/\ pc = "readline"
         /\ last'.op = "rm"
         /\ last'.returned
         /\ last'.target \notin DOMAIN dir)
        =>
        \A n \in InTree \ {last'.target} :
          file'[n].size =
            file[n].size
            - (IF n \in Ancestors(file, last'.target)
               THEN file[last'.target].size ELSE 0) ]_vars

\* a file with a parent and a grandparent has been removed
C4_Witness ==
    /\ pc = "loop"
    /\ last.op = "rm"
    /\ last.returned
    /\ last.target \notin DOMAIN dir
    /\ last.tparent # NULL
    /\ file[last.tparent].parent # NULL

\* C5: a refused storage delete during /rm does not end the process: main
\* is back at the head of its loop.
C5_DeleteFailureNonFatal ==
    (last.op = "rm" /\ last.refused # {}) => pc = "loop"

\* C6: when the removal of a /rm fails, the cursor afterwards is the
\* cursor before, and the session goes on.
C6_FailureKeepsCursor ==
    (last.op = "rm" /\ last.target # NULL /\ last.refused # {})
    => (Running /\ cur = last.precur)

\* C7: /rm with a name that is not blank and does not resolve against the
\* cursor does not crash, attempts no storage delete, and leaves the cursor
\* and the tree as they were.
C7_UnresolvedRm ==
    [][ (/\ pc = "readline"
         /\ last'.op = "rm"
         /\ ~ last'.blank
         /\ last'.target = NULL)
        =>
        /\ pc' = "loop"
        /\ last'.attempts = << >>
        /\ UNCHANGED <<cur, file, dir, freed, storage>> ]_vars

\* C8: ".." entered as a name while the cursor is the root reports an
\* error, leaves the cursor at the root, and main goes on with its loop.
C8_DotDotAtRoot ==
    (last.op = "nav" /\ last.dotdot /\ last.precur = tree)
    => (pc = "loop" /\ cur = tree /\ last.msg = "no such file")

\* ".." has been entered at the root
C8_Witness ==
    /\ last.op = "nav"
    /\ last.dotdot
    /\ last.precur = tree
    /\ tree # NULL

\* C9: after a /rm whose removal succeeded: when the target was the cursor,
\* the cursor is the target's former parent, and the session is over when
\* there is none; when the target was a named child of the cursor, the
\* cursor is as before.
C9_CursorAfterRemoval ==
    (last.op = "rm" /\ last.returned)
    =>
    /\ last.target = last.precur
         => IF last.tparent = NULL THEN ~ Running
            ELSE pc = "loop" /\ cur = last.tparent
    /\ (last.target # last.precur /\ last.tparent = last.precur)
         => (pc = "loop" /\ cur = last.precur)

\* the cursor itself has been removed and the cursor is its former parent
C9_Witness ==
    /\ last.op = "rm"
    /\ last.returned
    /\ last.target = last.precur
    /\ last.tparent # NULL
    /\ cur = last.tparent

\* C10: the process ends with status 0 on end of input and on the removal
\* of the root, and with status 1 on more than one argument and when lstat
\* fails on the root path.
C10_ExitCodes ==
    /\ (\/ last.op = "eof"
        \/ last.op = "rm" /\ last.returned /\ last.tparent = NULL)
       => (pc = "exited" /\ exit_code = 0)
    /\ (/\ last.op = "start"
        /\ \/ last.msg = "incorrect arguments"
           \/ last.msg = "stat failed" /\ last.refused \subseteq {ROOT, NULL})
       => (pc = "exited" /\ exit_code = 1)

\* C11: when lstat fails during the build on an entry other than the root
\* path, the build goes on and returns the root: main reaches its loop, the
\* entry is in no subdirs list and in no size, and every directory built
\* has size = self_size + the sizes of the nodes in its list.
C11_ChildStatSkipped ==
    (/\ last.op = "start"
     /\ last.refused # {}
     /\ last.refused \cap {ROOT, NULL} = {})
    =>
    /\ pc = "loop"
    /\ tree = ROOT
    /\ \A n \in last.refused :
         /\ n \notin DOMAIN file
         /\ \A d \in DOMAIN dir : n \notin Range(dir[d].subdirs)
    /\ \A d \in DOMAIN dir :
         file[d].size = dir[d].self_size + SumSizes(file, dir[d].subdirs)

\* the nodes built and not passed to free
Live == DOMAIN file \ freed

RECURSIVE Climb(_, _, _)
\* the parent references lead from n to NULL in at most k steps
Climb(fl, n, k) ==
    IF n = NULL THEN TRUE
    ELSE IF k = 0 THEN FALSE
    ELSE Climb(fl, fl[n].parent, k - 1)

\* the number of places of list that hold n
Occurrences(list, n) == Cardinality({ i \in 1..Len(list) : list[i] = n })

\* C12: whenever the process is running, after the build, a display and
\* every /rm that returned: the parent references of the live nodes have no
\* cycle; every live node but the root has a live directory as parent and
\* is exactly once in that directory's subdirs list and in the list of no
\* other live directory; no freed node is in the list of a live directory.
C12_WellFormed ==
    Running =>
      /\ tree \in Live
      /\ \A n \in Live :
           /\ Climb(file, n, Cardinality(DOMAIN file))
           /\ (file[n].parent = NULL) <=> (n = tree)
           /\ n # tree =>
                /\ file[n].parent \in Live \cap DOMAIN dir
                /\ \A d \in Live \cap DOMAIN dir :
                     Occurrences(dir[d].subdirs, n)
                       = IF d = file[n].parent THEN 1 ELSE 0
      /\ \A d \in Live \cap DOMAIN dir :
           Range(dir[d].subdirs) \cap freed = {}

\* a node has been removed from a list in which another node stays, and
\* the directory has been displayed since
C12_Witness ==
    /\ pc = "readline"
    /\ freed # {}
    /\ \E d \in Live \cap DOMAIN dir :
         /\ dir[d].subdirs # << >>
         /\ dir[d].subdirs_sorted
         /\ \E n \in freed : file[n].parent = d

\* list is in non-increasing order of size
Sorted(fl, list) ==
    \A i \in 1..(Len(list) - 1) : fl[list[i]].size >= fl[list[i + 1]].size

\* C13: whenever the process is running, every live directory whose
\* subdirs_sorted is set has its subdirs list in non-increasing order of
\* size.
C13_SortCacheValid ==
    Running =>
      \A d \in Live \cap DOMAIN dir :
        dir[d].subdirs_sorted => Sorted(file, dir[d].subdirs)

\* a removal below a directory that had been displayed has left its list
\* out of order, and its flag is reset
C13_Witness ==
    /\ pc = "loop"
    /\ last.op = "rm"
    /\ last.returned
    /\ \E d \in Live \cap DOMAIN dir :
         /\ d # last.tparent
         /\ ~ Sorted(file, dir[d].subdirs)
         /\ ~ dir[d].subdirs_sorted

\* the place of n in list
Position(list, n) == CHOOSE i \in 1..Len(list) : list[i] = n

\* the list the build left in the directory of the sort specification
Unsorted == reverse(Entries(disk, ROOT, 1))

\* C14: the call of sorted_subdirs on a directory whose list is in any
\* order leaves a list of the same length that holds the same nodes, each
\* once, in non-increasing order of size, and that list is what it returns.
C14_SortPostcondition ==
    [][ pc = "sort"
        =>
        /\ Len(dir'[cur].subdirs) = Len(dir[cur].subdirs)
        /\ Range(dir'[cur].subdirs) = Range(dir[cur].subdirs)
        /\ \A n \in Range(dir[cur].subdirs) :
             Occurrences(dir'[cur].subdirs, n) = 1
        /\ Sorted(file', dir'[cur].subdirs)
        /\ file' = file ]_vars

\* a list of three or more nodes that was out of order has been sorted
C14_Witness ==
    /\ pc = "sorted"
    /\ Len(Unsorted) >= 3
    /\ ~ Sorted(file, Unsorted)
    /\ dir[cur].subdirs # Unsorted
    /\ dir[cur].subdirs_sorted

\* C15: a second call of sorted_subdirs on a directory, with no removal
\* since the first, leaves and returns the list of the first call: the
\* same nodes in the same places, those of equal size too.
C15_SortIdempotent ==
    [][ pc = "sorted" => dir'[cur].subdirs = dir[cur].subdirs ]_vars

\* sorted_subdirs has been called twice on a list that was out of order
\* and holds two nodes of the same size
C15_Witness ==
    /\ pc = "again"
    /\ ~ Sorted(file, Unsorted)
    /\ \E i, j \in 1..Len(dir[cur].subdirs) :
         /\ i # j
         /\ file[dir[cur].subdirs[i]].size = file[dir[cur].subdirs[j]].size

\* C18: the merge sort of sorted_subdirs keeps two nodes of the same size
\* in the order they had in the list before the call.
C18_SortStable ==
    [][ pc = "sort"
        =>
        \A x, y \in Range(dir[cur].subdirs) :
          (/\ file[x].size = file[y].size
           /\ Position(dir[cur].subdirs, x) < Position(dir[cur].subdirs, y))
          => Position(dir'[cur].subdirs, x) < Position(dir'[cur].subdirs, y)
      ]_vars

\* the nodes of a fixture disk: the files of 100 and 200 bytes, and the
\* directory that holds the file of 300 bytes
FixtureA == CHOOSE n \in 2..4 : disk.st_size[n] = 100
FixtureB == CHOOSE n \in 2..4 : disk.st_size[n] = 200
FixtureC == disk.parent[5]

\* C16: on the fixture (a of 100, b of 200, directory c holding d of 300,
\* directories of size 0) the root is built with size 600; displayed with
\* nothing removed its list is c (300), b (200), a (100) and a row is
\* printed for each; a successful `/rm a` at the root, the first removal,
\* leaves the root with size 500, and the display that follows prints rows
\* for c and b only.
C16_Fixture ==
    disk \in FixtureDisks =>
      /\ (pc = "loop" /\ last.op = "start") => file[ROOT].size = 600
      /\ (pc = "readline" /\ cur = ROOT /\ freed = {})
           => /\ dir[ROOT].subdirs = <<FixtureC, FixtureB, FixtureA>>
              /\ file[FixtureC].size = 300
              /\ file[FixtureB].size = 200
              /\ file[FixtureA].size = 100
              /\ print_rows(Mem(file, dir, freed, storage), cur)
                   = <<FixtureC, FixtureB, FixtureA>>
      /\ (/\ last.op = "rm"
          /\ last.precur = ROOT
          /\ last.target = FixtureA
          /\ last.returned
          /\ freed = {FixtureA})
           => (pc = "loop" /\ cur = ROOT /\ file[ROOT].size = 500)
      /\ (pc = "readline" /\ cur = ROOT /\ freed = {FixtureA})
           => /\ file[ROOT].size = 500
              /\ FixtureA \notin storage
              /\ print_rows(Mem(file, dir, freed, storage), cur)
                   = <<FixtureC, FixtureB>>

\* a has been removed from the fixture and the root displayed again
C16_Witness ==
    /\ disk \in FixtureDisks
    /\ pc = "readline"
    /\ cur = ROOT
    /\ last.op = "display"
    /\ freed = {FixtureA}
    /\ dir[ROOT].subdirs_sorted

\* the places of the storage calls att made on nodes of the set s
CallsOn(att, s) == { i \in 1..Len(att) : att[i].node \in s }

\* C17: a /rm of a directory that does not crash makes a storage call on or
\* below every child of the directory, those after a child whose delete
\* was refused too, calls unlink and rmdir at most once each on any node,
\* makes every call below the directory before any call on the directory,
\* and calls rmdir on the directory only when every child is gone.
C17_DeletionOrder ==
    [][ (/\ pc = "readline"
         /\ pc' # "crashed"
         /\ last'.op = "rm"
         /\ last'.target # NULL
         /\ last'.target \in DOMAIN dir)
        =>
        LET t == last'.target
            att == last'.attempts
            kids == Range(dir[t].subdirs)
        IN  /\ \A c \in kids : CallsOn(att, Subtree(file, dir, c)) # {}
            /\ \A i, j \in 1..Len(att) :
                 (att[i].node = att[j].node /\ att[i].call = att[j].call)
                   => i = j
            /\ \A i \in CallsOn(att, {t}) :
                 \A j \in CallsOn(att, Subtree(file, dir, t) \ {t}) : j < i
            /\ CallsOn(att, {t}) # {} => kids \cap storage' = {} ]_vars

\* C19: at the head of main's loop, after the build and after every line,
\* the cursor is a node that has not been freed and that the subdirs lists
\* lead to from the root.
C19_CursorLive ==
    pc = "loop" => (cur \in Live /\ cur \in InTree)

\* `/rm ..` has removed the parent of the cursor, and the cursor with it
C19_Witness ==
    /\ pc = "loop"
    /\ last.op = "rm"
    /\ last.dotdot
    /\ last.returned
    /\ last.precur \in freed
    /\ last.precur # last.target
    /\ cur \in Live

\* C20: no node is read or freed again after it was freed: the
\* deallocation at the end of main, after end of input and after a /rm
\* that removed the root, meets no node that remove_file has freed, and the
\* process ends by returning from main.
C20_SingleDestruction ==
    /\ last.stale = {}
    /\ (\/ last.op = "eof"
        \/ last.op = "rm" /\ last.returned /\ last.tparent = NULL)
       => pc = "exited"

\* C21: while the process runs, and where a /rm that was refused a delete
\* has left it, a node that was built is in the tree (the subdirs lists
\* lead to it from the root) exactly when its entry is still on the disk.
C21_ModelStorageAgreement ==
    (\/ Running
     \/ pc = "exited" /\ last.op = "rm" /\ last.refused # {})
    =>
    \A n \in DOMAIN file : (n \in InTree) <=> (n \in storage)

\* a /rm of a directory has deleted one entry and was refused another
C21_Witness ==
    /\ pc = "exited"
    /\ last.op = "rm"
    /\ last.refused # {}
    /\ last.target \in DOMAIN dir
    /\ \E i \in 1..Len(last.attempts) : last.attempts[i].ok
    /\ storage # DOMAIN disk.parent

\* C22: a /rm calls unlink first on every node it reaches that build_tree
\* did not create as a directory, whatever its file type, the target
\* included, and calls only rmdir on the nodes created as directories.
C22_KindClassification ==
    (last.op = "rm" /\ last.target # NULL)
    =>
    /\ last.target \notin DOMAIN dir
         => /\ last.attempts # << >>
            /\ last.attempts[1].node = last.target
    /\ \A i \in 1..Len(last.attempts) :
         IF last.attempts[i].node \in DOMAIN dir
         THEN last.attempts[i].call = "rmdir"
         ELSE \E j \in 1..i :
                /\ last.attempts[j].node = last.attempts[i].node
                /\ last.attempts[j].call = "unlink"

====
